---- MODULE Spec2Model ----
(***************************************************************************)
(* Model of the VMControl research scripts:                                *)
(*   - the three goal-relabeling replay buffers of                         *)
(*     rlkit/data_management/obs_dict_replay_buffer.py,                    *)
(*   - the evaluation driver ISE_7202/eval.py,                             *)
(*   - the random-action demo demo_rlbench.py.                             *)
(*                                                                         *)
(* Array contents are tokens <<p, s, g>>: p is the number of the inserting *)
(* call (1, 2, ...), s the step of the path, g the goal tag (0: the goal   *)
(* the step was collected with, j+1: the achieved goal of step j).  The    *)
(* zeros written by np.zeros are the token <<0, 0, 0>>.                    *)
(***************************************************************************)
EXTENDS Integers, Sequences, FiniteSets

\* ---------------------------------------------------------------- bounds
MaxSize == 3
MaxCalls == 3
MaxRelabelCalls == 2
MaxPathLen == 4
MaxRelabelPathLen == 2
MaxRelabelSteps == 4
MaxK == 1
MaxBatch == 1
FracDen == 4
MaxBatchBuffer == 2
MaxBatchCalls == 1
MaxBatchPathLen == 2
MaxCountBatch == 8
MaxCountBuffer == 1
MaxCountCalls == 2
MaxCountPathLen == 1
MaxCountDraw == 3
MaxFutureCalls == 2
MaxOrderSize == 7
MaxOrderCalls == 1
MaxOrderPathLen == 3
MaxOrderSteps == 5
MaxOrderK == 1

VARIABLES
    cls,          \* which buffer class the object is
    phase,        \* "new" (before __init__), "ready", "failed" (__init__ raised)
    max_size, fraction_goals_rollout_goals, fraction_goals_env_goals, k,
    t_fn,         \* the t_fn argument of __init__: "None" (the default) or "given"
    _top, _size, _actions, _rewards, _terminals, _obs, _next_obs,
    _idx_to_future_obs_idx,
    last_op,      \* the method called last
    exc,          \* the exception the last call raised, "none" otherwise
    ret,          \* the value the last call returned (<<>> for None)
    ncalls,       \* number of insertion calls made so far (names the inputs)
    inserted,     \* number of transitions inserted by calls that advanced the buffer
    okLens,       \* every ObsDictRelabelingBuffer.add_path so far had 1 <= len <= max_size
    anyFailed,    \* some store into the arrays has raised so far
    store_failed, \* the store that raised in the last call ("none": no store raised)
    arg,          \* the path length and the goal draws of the last logged add_path call
    ev,           \* ISE_7202/eval.py: position and locals of main / run_evaluation
    dm            \* demo_rlbench.py: position and locals of main

bufvars == <<_top, _size, _actions, _rewards, _terminals, _obs, _next_obs,
             _idx_to_future_obs_idx>>
cfgvars == <<cls, phase, max_size, fraction_goals_rollout_goals,
             fraction_goals_env_goals, k, t_fn, ev, dm, arg>>
callvars == <<last_op, exc, ret, ncalls, inserted, okLens, anyFailed, store_failed>>

Classes == {"ObsDictRelabelingBuffer", "imgObsDictRelabelingBuffer",
            "newstateObsDictRelabelingBuffer"}

\* ---------------------------------------------------------------- values
Zero == <<0, 0, 0>>
Tok(p, s, g) == <<p, s, g>>
None == <<-1>>
Unset == [i \in {} |-> Zero]

Min(a, b) == IF a < b THEN a ELSE b

\* np.zeros((n, ...))
Zeros(n) == [i \in 0..(n - 1) |-> Zero]
ZerosU8(n) == [i \in 0..(n - 1) |-> 0]

\* np.arange(a, b) as a sequence
Arange(a, b) == [n \in 1..(b - a) |-> a + n - 1]

\* arr[lo:hi] = src[slo:slo + (hi - lo)]
SliceAssign(arr, lo, hi, src, slo) ==
    [i \in DOMAIN arr |-> IF lo <= i /\ i < hi THEN src[slo + (i - lo)] ELSE arr[i]]

\* the buffer object as a record
Buf == [top |-> _top, size |-> _size, actions |-> _actions, rewards |-> _rewards,
        terminals |-> _terminals, obs |-> _obs, next_obs |-> _next_obs,
        fut |-> _idx_to_future_obs_idx, exc |-> "none", failed |-> "none", n |-> 0]

SetBuf(b) ==
    /\ _top' = b.top
    /\ _size' = b.size
    /\ _actions' = b.actions
    /\ _rewards' = b.rewards
    /\ _terminals' = b.terminals
    /\ _obs' = b.obs
    /\ _next_obs' = b.next_obs
    /\ _idx_to_future_obs_idx' = b.fut

\* the two scripts before they are started
EvIdle == [pc |-> "idle", i |-> 0, obs |-> 0, action |-> 0, confirms |-> 0,
           terminate |-> 0, nsteps |-> 0, nresets |-> 0, nrenders |-> 0,
           have_env |-> FALSE, closed |-> FALSE]
DmIdle == [pc |-> "idle", step_num |-> 0, terminate |-> 0, task_steps |-> 0,
           seen_terminate |-> FALSE]

\* ---------------------------------------------------------------- __init__
\* faulty variant: the assertion on the upper end of the sum is missing
MutFractionAsserts(fr, fe) == 0 <= fr /\ 0 <= fe /\ 0 <= fr + fe

\* the four assertions on the goal fractions (fractions in units of 1/FracDen)
FractionAsserts(fr, fe) ==
    /\ 0 <= fr
    /\ 0 <= fe
    /\ 0 <= fr + fe
    /\ fr + fe <= FracDen

\* the fields __init__ sets after the assertions, per class
InitFields(c, ms) ==
    [top |-> 0, size |-> 0,
     actions |-> Zeros(ms),
     rewards |-> IF c = "ObsDictRelabelingBuffer" THEN Unset ELSE Zeros(ms),
     terminals |-> ZerosU8(ms),
     obs |-> Zeros(ms),
     next_obs |-> Zeros(ms),
     fut |-> IF c = "imgObsDictRelabelingBuffer" THEN Unset
             ELSE [i \in 0..(ms - 1) |-> None]]

UnsetFields ==
    [top |-> -1, size |-> -1, actions |-> Unset, rewards |-> Unset,
     terminals |-> Unset, obs |-> Unset, next_obs |-> Unset, fut |-> Unset]

FracArgs == (-1)..(FracDen + 1)

\* the t_fn argument: only imgObsDictRelabelingBuffer.add_path calls it
\* (ObsDictRelabelingBuffer has no such argument, the newstate class stores it
\* and never reads it)
TFnArgs(c) == IF c = "imgObsDictRelabelingBuffer" THEN {"None", "given"} ELSE {"None"}

\* the object before __init__ runs: only the arguments are known
InitNew ==
    /\ cls \in Classes
    /\ phase = "new"
    /\ max_size \in 1..MaxSize
    /\ fraction_goals_rollout_goals \in FracArgs
    /\ fraction_goals_env_goals \in FracArgs
    /\ k \in (IF cls = "ObsDictRelabelingBuffer" THEN {0} ELSE 1..MaxK)
    /\ t_fn \in TFnArgs(cls)
    /\ _top = UnsetFields.top
    /\ _size = UnsetFields.size
    /\ _actions = Unset
    /\ _rewards = Unset
    /\ _terminals = Unset
    /\ _obs = Unset
    /\ _next_obs = Unset
    /\ _idx_to_future_obs_idx = Unset
    /\ last_op = "none"
    /\ exc = "none"
    /\ ret = <<>>
    /\ ncalls = 0
    /\ inserted = 0
    /\ okLens = TRUE
    /\ anyFailed = FALSE
    /\ store_failed = "none"
    /\ arg = <<>>
    /\ ev = EvIdle
    /\ dm = DmIdle

Construct ==
    /\ phase = "new"
    /\ last_op' = "__init__"
    /\ IF FractionAsserts(fraction_goals_rollout_goals, fraction_goals_env_goals)
       THEN /\ phase' = "ready"
            /\ exc' = "none"
            /\ SetBuf(InitFields(cls, max_size))
       ELSE /\ phase' = "failed"
            /\ exc' = "AssertionError"
            /\ UNCHANGED bufvars
    /\ UNCHANGED <<cls, max_size, fraction_goals_rollout_goals,
                   fraction_goals_env_goals, k, t_fn, ret, ncalls, inserted,
                   okLens, anyFailed, store_failed, ev, dm, arg>>

\* ------------------------------------------- ObsDictRelabelingBuffer
\* the arrays add_path builds from path p of length L (flatten_n / flatten_dict)
PathTokens(p, L) == [s \in 0..(L - 1) |-> Tok(p, s, 0)]
PathTerminals(L) == [s \in 0..(L - 1) |-> IF s = L - 1 THEN 1 ELSE 0]

\* faulty variant: the path slice always starts at the first step of the path
MutWriteSlice(b, lo, hi, p, L, slo) ==
    [b EXCEPT !.actions = SliceAssign(b.actions, lo, hi, PathTokens(p, L), 0),
              !.terminals = SliceAssign(b.terminals, lo, hi, PathTerminals(L), 0),
              !.obs = SliceAssign(b.obs, lo, hi, PathTokens(p, L), 0),
              !.next_obs = SliceAssign(b.next_obs, lo, hi, PathTokens(p, L), 0)]

\* one (buffer_slice, path_slice) round of the wrapping branch's loop
WriteSlice(b, lo, hi, p, L, slo) ==
    [b EXCEPT !.actions = SliceAssign(b.actions, lo, hi, PathTokens(p, L), slo),
              !.terminals = SliceAssign(b.terminals, lo, hi, PathTerminals(L), slo),
              !.obs = SliceAssign(b.obs, lo, hi, PathTokens(p, L), slo),
              !.next_obs = SliceAssign(b.next_obs, lo, hi, PathTokens(p, L), slo)]

\* the future-index lists written by the wrapping branch: first the slots
\* before the wrap, then the slots after it (which override the former)
WrapFuture(fut, top, ms, post) ==
    LET pre == [i \in DOMAIN fut |->
                  IF top <= i /\ i < ms
                  THEN Arange(i, ms) \o Arange(0, post)
                  ELSE fut[i]]
    IN [i \in DOMAIN fut |->
          IF 0 <= i /\ i < post THEN Arange(i, post) ELSE pre[i]]

\* faulty variant: every slot of the path gets the indices of the whole path
MutNoWrapFuture(fut, top, L) ==
    [i \in DOMAIN fut |->
       IF top <= i /\ i < top + L THEN Arange(top, top + L) ELSE fut[i]]

NoWrapFuture(fut, top, L) ==
    [i \in DOMAIN fut |->
       IF top <= i /\ i < top + L THEN Arange(i, top + L) ELSE fut[i]]

\* faulty variant: the fill count is not capped at max_size
MutAdvancePath(b, ms, L) ==
    [b EXCEPT !.top = (b.top + L) % ms,
              !.size = b.size + L,
              !.n = L]

\* _top and _size after a path of length L was stored
AdvancePath(b, ms, L) ==
    [b EXCEPT !.top = (b.top + L) % ms,
              !.size = Min(b.size + L, ms),
              !.n = L]

\* add_path: b is the buffer, ms its max_size, p the path's number, L its length
ObsDict_add_path(b, ms, p, L) ==
    IF L = 0
    THEN \* flatten_n: reshape((0, -1)) of the empty actions array raises
         \* before anything is stored
         [b EXCEPT !.exc = "ValueError"]
    ELSE IF b.top + L >= ms
    THEN LET num_pre_wrap_steps == ms - b.top
             num_post_wrap_steps == L - num_pre_wrap_steps
             b1 == WriteSlice(b, b.top, b.top + num_pre_wrap_steps, p, L, 0)
         IN IF num_post_wrap_steps > ms
            THEN \* the post-wrap slice holds more rows than the buffer:
                 \* the assignment raises after the pre-wrap slice is written
                 [b1 EXCEPT !.exc = "ValueError", !.failed = "actions"]
            ELSE LET b2 == WriteSlice(b1, 0, num_post_wrap_steps, p, L,
                                      num_pre_wrap_steps)
                     b3 == [b2 EXCEPT !.fut = WrapFuture(b2.fut, b.top, ms,
                                                         num_post_wrap_steps)]
                 IN AdvancePath(b3, ms, L)
    ELSE LET b1 == WriteSlice(b, b.top, b.top + L, p, L, 0)
             b2 == [b1 EXCEPT !.fut = NoWrapFuture(b1.fut, b.top, L)]
         IN AdvancePath(b2, ms, L)

\* num_steps_can_sample
num_steps_can_sample == _size

\* _sample_indices: the index arrays np.random.randint(0, _size, batch_size) can return
RECURSIVE SeqsOver(_, _)
SeqsOver(S, n) ==
    IF n = 0 THEN {<<>>}
    ELSE {Append(q, x) : q \in SeqsOver(S, n - 1), x \in S}

\* faulty variant: the upper end is taken as inclusive, as in "[0, self._size]"
Mut_sample_indices(size, batch_size) == SeqsOver(0..size, batch_size)

_sample_indices(size, batch_size) == SeqsOver(0..(size - 1), batch_size)

IsReady(c) == phase = "ready" /\ cls = c

\* an add_path call, among at most `calls` insertions of paths up to `len` long
AddPathObsDictWithin(calls, len) ==
    /\ IsReady("ObsDictRelabelingBuffer")
    /\ ncalls < calls
    /\ \E L \in 0..len :
         LET r == ObsDict_add_path(Buf, max_size, ncalls + 1, L)
         IN /\ SetBuf(r)
            /\ exc' = r.exc
            /\ inserted' = inserted + r.n
            /\ okLens' = (okLens /\ 1 <= L /\ L <= max_size)
            /\ anyFailed' = (anyFailed \/ r.failed # "none")
            /\ store_failed' = r.failed
    /\ last_op' = "add_path"
    /\ ret' = <<>>
    /\ ncalls' = ncalls + 1
    /\ UNCHANGED cfgvars

AddPathObsDict == AddPathObsDictWithin(MaxCalls, MaxPathLen)

\* faulty variant: add_sample returns without raising
MutObsDict_add_sample(b) == b

\* add_sample raises NotImplementedError("Only use add_path")
ObsDict_add_sample(b) == [b EXCEPT !.exc = "NotImplementedError"]

AddSampleObsDict ==
    /\ IsReady("ObsDictRelabelingBuffer")
    /\ LET r == ObsDict_add_sample(Buf)
       IN /\ SetBuf(r)
          /\ exc' = r.exc
          /\ store_failed' = r.failed
    /\ last_op' = "add_sample"
    /\ ret' = <<>>
    /\ UNCHANGED <<cfgvars, ncalls, inserted, okLens, anyFailed>>

\* terminate_episode: pass
terminate_episode(b) == b

TerminateEpisode ==
    /\ phase = "ready"
    /\ LET r == terminate_episode(Buf)
       IN /\ SetBuf(r)
          /\ exc' = r.exc
          /\ store_failed' = r.failed
    /\ last_op' = "terminate_episode"
    /\ ret' = <<>>
    /\ UNCHANGED <<cfgvars, ncalls, inserted, okLens, anyFailed>>

\* a call of _sample_indices (all three classes define it the same way)
SampleIndices ==
    /\ phase = "ready"
    /\ last_op' = "_sample_indices"
    /\ \E batch_size \in 1..MaxBatch :
         IF _size <= 0
         THEN /\ exc' = "ValueError"   \* randint: low >= high
              /\ ret' = <<>>
         ELSE /\ exc' = "none"
              /\ ret' \in _sample_indices(_size, batch_size)
    /\ store_failed' = "none"
    /\ UNCHANGED <<cfgvars, bufvars, ncalls, inserted, okLens, anyFailed>>

\* ------------------------------------------- imgObsDictRelabelingBuffer
\* faulty variant: the write pointer does not wrap
Mut_img_advance(b, ms) ==
    [b EXCEPT !.top = b.top + 1,
              !.size = IF b.size < ms THEN b.size + 1 ELSE b.size,
              !.n = b.n + 1]

\* _advance (the same code in both classes that have it)
img_advance(b, ms) ==
    [b EXCEPT !.top = (b.top + 1) % ms,
              !.size = IF b.size < ms THEN b.size + 1 ELSE b.size,
              !.n = b.n + 1]

\* the three stores made before the try block
StoreHead(b, smp) ==
    [b EXCEPT !.actions[b.top] = smp.action,
              !.rewards[b.top] = smp.reward,
              !.terminals[b.top] = smp.terminal]

\* faulty variant: the except clause logs the exception and does not raise it again
Mut_img_add_sample(b, ms, smp, obs_ok, next_ok) ==
    LET b1 == [b EXCEPT !.actions[b.top] = smp.action,
                        !.rewards[b.top] = smp.reward,
                        !.terminals[b.top] = smp.terminal]
        b2 == IF obs_ok THEN [b1 EXCEPT !.obs[b.top] = smp.obs] ELSE b1
        b3 == IF obs_ok /\ next_ok THEN [b2 EXCEPT !.next_obs[b.top] = smp.next_obs]
              ELSE b2
        b4 == [b3 EXCEPT !.failed = IF ~obs_ok THEN "obs"
                                    ELSE IF ~next_ok THEN "next_obs" ELSE "none"]
    IN [b4 EXCEPT !.top = (b.top + 1) % ms,
                  !.size = IF b.size < ms THEN b.size + 1 ELSE b.size,
                  !.n = b.n + 1]

\* add_sample.  obs_ok / next_ok: whether the row assignment of obs / next_obs
\* succeeds (it raises ValueError for an array of the wrong size).  The except
\* clause prints and raises the exception again; _advance is not reached.
img_add_sample(b, ms, smp, obs_ok, next_ok) ==
    LET b1 == StoreHead(b, smp)
    IN IF ~obs_ok
       THEN [b1 EXCEPT !.exc = "ValueError", !.failed = "obs"]
       ELSE LET b2 == [b1 EXCEPT !.obs[b.top] = smp.obs]
            IN IF ~next_ok
               THEN [b2 EXCEPT !.exc = "ValueError", !.failed = "next_obs"]
               ELSE img_advance([b2 EXCEPT !.next_obs[b.top] = smp.next_obs], ms)

\* ------------------------------------------- newstateObsDictRelabelingBuffer
newstate_advance(b, ms) ==
    [b EXCEPT !.top = (b.top + 1) % ms,
              !.size = IF b.size < ms THEN b.size + 1 ELSE b.size,
              !.n = b.n + 1]

\* add_sample: the same five stores, without a try block
newstate_add_sample(b, ms, smp, obs_ok, next_ok) ==
    LET b1 == StoreHead(b, smp)
    IN IF ~obs_ok
       THEN [b1 EXCEPT !.exc = "ValueError", !.failed = "obs"]
       ELSE LET b2 == [b1 EXCEPT !.obs[b.top] = smp.obs]
            IN IF ~next_ok
               THEN [b2 EXCEPT !.exc = "ValueError", !.failed = "next_obs"]
               ELSE newstate_advance([b2 EXCEPT !.next_obs[b.top] = smp.next_obs], ms)

\* ------------------------------------------- the samples add_path inserts
\* the original transition of step i of path p
Original(p, L, i) ==
    [obs |-> Tok(p, i, 0), action |-> Tok(p, i, 0), reward |-> Tok(p, i, 0),
     terminal |-> PathTerminals(L)[i], next_obs |-> Tok(p, i, 0)]

\* step i of path p relabelled with the achieved goal of step g: the action
\* and the terminal flag are those of step i
Relabelled(p, L, i, g) ==
    [obs |-> Tok(p, i, g + 1), action |-> Tok(p, i, 0), reward |-> Tok(p, i, g + 1),
     terminal |-> PathTerminals(L)[i], next_obs |-> Tok(p, i, g + 1)]

\* the possible results of np.random.choice(np.arange(i + 1, L), kk) for every
\* step i but the last: sel[i * kk + j + 1] is the j-th goal index drawn for step i
Selections(L, kk) ==
    IF L <= 1 THEN {<<>>}
    ELSE {sel \in [1..(kk * (L - 1)) -> 1..(L - 1)] :
            \A n \in 1..(kk * (L - 1)) : sel[n] > (n - 1) \div kk}

\* the relabelled samples imgObsDictRelabelingBuffer.add_path builds from
\* `out` (rerendering_env.get_resample_step returns one tuple for each state
\* it is passed, in order: none for a path of one step)
img_relabelled(p, L, kk, sel) ==
    [n \in 1..Len(sel) |-> Relabelled(p, L, (n - 1) \div kk, sel[n])]

\* imgObsDictRelabelingBuffer.add_path: all originals first, then the
\* relabelled samples in the order of `out`
img_samples(p, L, kk, sel) ==
    [i \in 1..L |-> Original(p, L, i - 1)] \o img_relabelled(p, L, kk, sel)

\* newstateObsDictRelabelingBuffer.add_path: the original of step i, then its
\* kk relabelled copies, then the original of step i + 1; the last step has none
RECURSIVE newstate_samples_from(_, _, _, _, _)
newstate_samples_from(p, L, kk, sel, i) ==
    IF i >= L THEN <<>>
    ELSE <<Original(p, L, i)>>
         \o (IF i = L - 1 THEN <<>>
             ELSE [j \in 1..kk |-> Relabelled(p, L, i, sel[i * kk + j])])
         \o newstate_samples_from(p, L, kk, sel, i + 1)

\* faulty variant: the relabelled samples follow all the originals
Mut_newstate_samples(p, L, kk, sel) == img_samples(p, L, kk, sel)

newstate_samples(p, L, kk, sel) == newstate_samples_from(p, L, kk, sel, 0)

\* the observations of a path: all of the size the arrays were built for
\* (at = 0), or the observation (store = "obs") or the next observation
\* (store = "next_obs") of the at-th sample of another size
WellFormed == [at |-> 0, store |-> "none"]
PathShapes(n) ==
    {WellFormed} \cup {[at |-> m, store |-> st] : m \in 1..n, st \in {"obs", "next_obs"}}

OneSample(c, b, ms, smp, obs_ok, next_ok) ==
    IF c = "imgObsDictRelabelingBuffer"
    THEN img_add_sample(b, ms, smp, obs_ok, next_ok)
    ELSE newstate_add_sample(b, ms, smp, obs_ok, next_ok)

\* the add_sample calls of an add_path for the samples todo[n], todo[n + 1],
\* ..., numbered from `first` on; a call that raises ends the loop
RECURSIVE TakeSteps(_, _, _, _, _, _, _)
TakeSteps(c, b, ms, todo, n, first, shape) ==
    IF n > Len(todo) \/ b.exc # "none" THEN b
    ELSE LET at == first + n - 1
             obs_ok == ~(shape.at = at /\ shape.store = "obs")
             next_ok == ~(shape.at = at /\ shape.store = "next_obs")
         IN TakeSteps(c, OneSample(c, b, ms, todo[n], obs_ok, next_ok), ms,
                      todo, n + 1, first, shape)

\* imgObsDictRelabelingBuffer.add_path.  tf is self.t_fn.
img_add_path(b, ms, p, L, kk, sel, tf, shape) ==
    LET c == "imgObsDictRelabelingBuffer"
        b1 == TakeSteps(c, b, ms, [i \in 1..L |-> Original(p, L, i - 1)], 1, 1, shape)
        out == img_relabelled(p, L, kk, sel)
    IN IF b1.exc # "none" THEN b1
       ELSE IF L = 0
       THEN \* len(actions[0]): the empty path has no first action
            [b1 EXCEPT !.exc = "IndexError"]
       ELSE IF out = <<>> THEN b1
       ELSE IF tf = "None"
       THEN \* self.t_fn(obs_before): None is not callable
            [b1 EXCEPT !.exc = "TypeError"]
       ELSE TakeSteps(c, b1, ms, out, 1, L + 1, shape)

\* newstateObsDictRelabelingBuffer.add_path (no step is taken for the empty path)
newstate_add_path(b, ms, p, L, kk, sel, shape) ==
    TakeSteps("newstateObsDictRelabelingBuffer", b, ms,
              newstate_samples(p, L, kk, sel), 1, 1, shape)


\* a direct add_sample call on one of the two classes that implement it
AddSampleWithin(calls) ==
    /\ phase = "ready"
    /\ cls # "ObsDictRelabelingBuffer"
    /\ ncalls < calls
    /\ \E obs_ok \in BOOLEAN, next_ok \in BOOLEAN :
         LET smp == Original(ncalls + 1, 1, 0)
             r == OneSample(cls, Buf, max_size, smp, obs_ok, next_ok)
         IN /\ SetBuf(r)
            /\ exc' = r.exc
            /\ inserted' = inserted + r.n
            /\ anyFailed' = (anyFailed \/ r.failed # "none")
            /\ store_failed' = r.failed
    /\ last_op' = "add_sample"
    /\ ret' = <<>>
    /\ ncalls' = ncalls + 1
    /\ UNCHANGED <<cfgvars, okLens>>

AddSample == AddSampleWithin(MaxRelabelCalls)

\* an add_path call of one of the two classes that relabel while inserting,
\* among at most `calls` insertion calls, of a path up to `len` long, while
\* the buffer has taken no more than `steps` transitions in all
AddPathRelabelWithin(calls, len, steps) ==
    /\ phase = "ready"
    /\ cls # "ObsDictRelabelingBuffer"
    /\ ncalls < calls
    /\ \E L \in 0..len :
       \E sel \in Selections(L, k) :
       \E shape \in PathShapes(L + Len(sel)) :
         /\ inserted + L + Len(sel) <= steps
         /\ LET r == IF cls = "imgObsDictRelabelingBuffer"
                     THEN img_add_path(Buf, max_size, ncalls + 1, L, k, sel, t_fn,
                                       shape)
                     ELSE newstate_add_path(Buf, max_size, ncalls + 1, L, k, sel,
                                            shape)
            IN /\ SetBuf(r)
               /\ exc' = r.exc
               /\ inserted' = inserted + r.n
               /\ anyFailed' = (anyFailed \/ r.failed # "none")
               /\ store_failed' = r.failed
    /\ last_op' = "add_path"
    /\ ret' = <<>>
    /\ ncalls' = ncalls + 1
    /\ UNCHANGED <<cfgvars, okLens>>

AddPathRelabel == AddPathRelabelWithin(MaxRelabelCalls, MaxRelabelPathLen, MaxRelabelSteps)

\* ------------------------------------------- specifications of the buffers
vars == <<cls, phase, max_size, fraction_goals_rollout_goals,
          fraction_goals_env_goals, k, t_fn, _top, _size, _actions, _rewards,
          _terminals, _obs, _next_obs, _idx_to_future_obs_idx, last_op, exc, ret,
          ncalls, inserted, okLens, anyFailed, store_failed, ev, dm, arg>>

Next ==
    \/ AddPathObsDict
    \/ AddSampleObsDict
    \/ TerminateEpisode
    \/ SampleIndices
    \/ AddSample
    \/ AddPathRelabel

\* the constructor alone, over all the fraction arguments
SpecCtor == InitNew /\ [][Construct]_vars

\* the buffers in use: the states __init__ leaves for the default fractions
\* (fraction_goals_rollout_goals = 1.0, fraction_goals_env_goals = 0.0)
Init ==
    /\ cls \in Classes
    /\ phase = "ready"
    /\ max_size \in 1..MaxSize
    /\ fraction_goals_rollout_goals = FracDen
    /\ fraction_goals_env_goals = 0
    /\ FractionAsserts(fraction_goals_rollout_goals, fraction_goals_env_goals)
    /\ k \in (IF cls = "ObsDictRelabelingBuffer" THEN {0} ELSE 1..MaxK)
    /\ t_fn \in TFnArgs(cls)
    /\ _top = InitFields(cls, max_size).top
    /\ _size = InitFields(cls, max_size).size
    /\ _actions = InitFields(cls, max_size).actions
    /\ _rewards = InitFields(cls, max_size).rewards
    /\ _terminals = InitFields(cls, max_size).terminals
    /\ _obs = InitFields(cls, max_size).obs
    /\ _next_obs = InitFields(cls, max_size).next_obs
    /\ _idx_to_future_obs_idx = InitFields(cls, max_size).fut
    /\ last_op = "__init__"
    /\ exc = "none"
    /\ ret = <<>>
    /\ ncalls = 0
    /\ inserted = 0
    /\ okLens = TRUE
    /\ anyFailed = FALSE
    /\ store_failed = "none"
    /\ arg = <<>>
    /\ ev = EvIdle
    /\ dm = DmIdle

Spec == Init /\ [][Next]_vars

\* ------------------------------------------- add_path, its draws recorded
\* newstateObsDictRelabelingBuffer.add_path; the path length and the draws of
\* np.random.choice are recorded in arg
AddPathNewstate ==
    /\ IsReady("newstateObsDictRelabelingBuffer")
    /\ ncalls < MaxOrderCalls
    /\ \E L \in 0..MaxOrderPathLen :
       \E sel \in Selections(L, k) :
       \E shape \in PathShapes(L + Len(sel)) :
         /\ inserted + L + Len(sel) <= MaxOrderSteps
         /\ LET r == newstate_add_path(Buf, max_size, ncalls + 1, L, k, sel, shape)
            IN /\ SetBuf(r)
               /\ exc' = r.exc
               /\ inserted' = inserted + r.n
               /\ anyFailed' = (anyFailed \/ r.failed # "none")
               /\ store_failed' = r.failed
               /\ arg' = <<L, sel, shape>>
    /\ last_op' = "add_path"
    /\ ret' = <<>>
    /\ ncalls' = ncalls + 1
    /\ UNCHANGED <<cls, phase, max_size, fraction_goals_rollout_goals,
                   fraction_goals_env_goals, k, t_fn, ev, dm, okLens>>

OrderAddSample == AddSampleWithin(MaxOrderCalls)

InitOrder ==
    /\ cls = "newstateObsDictRelabelingBuffer"
    /\ phase = "ready"
    /\ max_size \in 1..MaxOrderSize
    /\ fraction_goals_rollout_goals = FracDen
    /\ fraction_goals_env_goals = 0
    /\ FractionAsserts(fraction_goals_rollout_goals, fraction_goals_env_goals)
    /\ k \in 1..MaxOrderK
    /\ t_fn \in TFnArgs(cls)
    /\ _top = InitFields(cls, max_size).top
    /\ _size = InitFields(cls, max_size).size
    /\ _actions = InitFields(cls, max_size).actions
    /\ _rewards = InitFields(cls, max_size).rewards
    /\ _terminals = InitFields(cls, max_size).terminals
    /\ _obs = InitFields(cls, max_size).obs
    /\ _next_obs = InitFields(cls, max_size).next_obs
    /\ _idx_to_future_obs_idx = InitFields(cls, max_size).fut
    /\ last_op = "__init__"
    /\ exc = "none"
    /\ ret = <<>>
    /\ ncalls = 0
    /\ inserted = 0
    /\ okLens = TRUE
    /\ anyFailed = FALSE
    /\ store_failed = "none"
    /\ arg = <<>>
    /\ ev = EvIdle
    /\ dm = DmIdle

NextOrder ==
    \/ AddPathNewstate
    \/ OrderAddSample
    \/ TerminateEpisode

SpecOrder == InitOrder /\ [][NextOrder]_vars

\* ------------------------------------------- random_batch
\* int(batch_size * fraction) for a fraction f / FracDen that is not negative:
\* for these fractions and the batch sizes drawn here the floating-point
\* product differs from the exact one by less than the distance to the next
\* integer below, so that int() returns the exact quotient
\* faulty variant: the product is rounded up
MutIntOfProduct(batch_size, f) == (batch_size * f + FracDen - 1) \div FracDen

IntOfProduct(batch_size, f) == (batch_size * f) \div FracDen

num_env_goals(batch_size, fe) == IntOfProduct(batch_size, fe)
num_rollout_goals(batch_size, fr) == IntOfProduct(batch_size, fr)
num_future_goals(batch_size, fr, fe) ==
    batch_size - (num_env_goals(batch_size, fe) + num_rollout_goals(batch_size, fr))

\* the part of a stored observation token under a key of the observation
\* dictionary: the token itself for the observation, and for a goal the key
\* it was read under with the token (env.sample_goals returns goals of no slot)
Goal(key, tok) == <<key, tok>>
EnvGoal == Goal("env_goal", Zero)
Part(key, tok) == IF key = "observation" THEN tok ELSE Goal(key, tok)

\* the arrays random_batch touches, by name: the arrays of the buffer (one
\* for each key of ob_keys_to_save where the buffer keeps a dictionary) and
\* the arrays the call builds.  A name bound to no array holds <<>>.
NoArrays ==
    [_obs_observation |-> <<>>, _obs_desired_goal |-> <<>>,
     _obs_achieved_goal |-> <<>>, _next_obs_observation |-> <<>>,
     _next_obs_desired_goal |-> <<>>, _next_obs_achieved_goal |-> <<>>,
     _obs |-> <<>>, _next_obs |-> <<>>, _actions |-> <<>>, _rewards |-> <<>>,
     _terminals |-> <<>>,
     resampled_goals |-> <<>>, future_goals |-> <<>>,
     new_obs_dict_observation |-> <<>>, new_obs_dict_desired_goal |-> <<>>,
     new_obs_dict_achieved_goal |-> <<>>, new_next_obs_dict_observation |-> <<>>,
     new_next_obs_dict_desired_goal |-> <<>>,
     new_next_obs_dict_achieved_goal |-> <<>>,
     observations |-> <<>>, next_observations |-> <<>>, new_actions |-> <<>>,
     rewards |-> <<>>, terminals |-> <<>>]

\* the arrays of an ObsDictRelabelingBuffer, and the buffer with these arrays:
\* a stored token stands for its three parts, and a row whose parts are no
\* longer those of one token is a row of another content
ObsDictHeap(b) ==
    [NoArrays EXCEPT
       !._obs_observation = [i \in DOMAIN b.obs |-> Part("observation", b.obs[i])],
       !._obs_desired_goal = [i \in DOMAIN b.obs |-> Part("desired_goal", b.obs[i])],
       !._obs_achieved_goal = [i \in DOMAIN b.obs |-> Part("achieved_goal", b.obs[i])],
       !._next_obs_observation =
           [i \in DOMAIN b.next_obs |-> Part("observation", b.next_obs[i])],
       !._next_obs_desired_goal =
           [i \in DOMAIN b.next_obs |-> Part("desired_goal", b.next_obs[i])],
       !._next_obs_achieved_goal =
           [i \in DOMAIN b.next_obs |-> Part("achieved_goal", b.next_obs[i])],
       !._actions = b.actions,
       !._terminals = b.terminals]

Row(o, d, a) ==
    IF d = Part("desired_goal", o) /\ a = Part("achieved_goal", o)
    THEN o
    ELSE <<o, d, a, "rewritten">>

ObsDictBuffer(h, b) ==
    [b EXCEPT !.actions = h._actions,
              !.terminals = h._terminals,
              !.obs = [i \in DOMAIN b.obs |->
                         Row(h._obs_observation[i], h._obs_desired_goal[i],
                             h._obs_achieved_goal[i])],
              !.next_obs = [i \in DOMAIN b.next_obs |->
                              Row(h._next_obs_observation[i],
                                  h._next_obs_desired_goal[i],
                                  h._next_obs_achieved_goal[i])]]

\* the arrays of the two classes that store plain observations
PlainHeap(b) ==
    [NoArrays EXCEPT !._obs = b.obs, !._next_obs = b.next_obs,
                     !._actions = b.actions, !._rewards = b.rewards,
                     !._terminals = b.terminals]

PlainBuffer(h, b) ==
    [b EXCEPT !.obs = h._obs, !.next_obs = h._next_obs, !.actions = h._actions,
              !.rewards = h._rewards, !.terminals = h._terminals]

\* the state of a call: h maps a name to the array stored under it, r maps
\* a local name to the array it refers to and the rows of it that it denotes
NoRef == [base |-> "", rows |-> <<>>]
CallState(h) == [h |-> h, r |-> [o \in DOMAIN NoArrays |-> NoRef]]

\* faulty variant: indexing with an integer array gives a view of the array
MutAdvancedIndex(st, src, indices, dst) ==
    [h |-> st.h,
     r |-> [st.r EXCEPT ![dst] =
              [base |-> src,
               rows |-> [n \in 0..(Len(indices) - 1) |-> indices[n + 1]]]]]

\* dst = src[indices] for an integer array `indices`: numpy builds a new
\* array holding row indices[n] of src at row n
AdvancedIndex(st, src, indices, dst) ==
    [h |-> [st.h EXCEPT ![dst] =
              [n \in 0..(Len(indices) - 1) |-> st.h[src][indices[n + 1]]]],
     r |-> [st.r EXCEPT ![dst] =
              [base |-> dst, rows |-> [n \in 0..(Len(indices) - 1) |-> n]]]]

\* the rows a local name denotes, as a sequence
Deref(st, name) ==
    LET ref == st.r[name]
    IN [n \in 1..Cardinality(DOMAIN ref.rows) |-> st.h[ref.base][ref.rows[n - 1]]]

Last(S) == CHOOSE x \in S : \A y \in S : y <= x

\* name[lo:hi] = vals: the assignment stores into the array the name refers to
SliceStore(st, name, lo, hi, vals) ==
    LET ref == st.r[name]
    IN [st EXCEPT !.h[ref.base] =
          [i \in DOMAIN @ |->
             LET ns == {n \in lo..(hi - 1) : ref.rows[n] = i}
             IN IF ns = {} THEN @[i] ELSE vals[Last(ns) - lo + 1]]]

\* dict[key] = other: the key is bound to the array `other` refers to
Rebind(st, name, other) == [st EXCEPT !.r[name] = st.r[other]]

\* _batch_obs_dict: self._obs[key][indices] for each key of ob_keys_to_save
_batch_obs_dict(st, indices) ==
    LET s1 == AdvancedIndex(st, "_obs_observation", indices,
                            "new_obs_dict_observation")
        s2 == AdvancedIndex(s1, "_obs_desired_goal", indices,
                            "new_obs_dict_desired_goal")
    IN AdvancedIndex(s2, "_obs_achieved_goal", indices, "new_obs_dict_achieved_goal")

_batch_next_obs_dict(st, indices) ==
    LET s1 == AdvancedIndex(st, "_next_obs_observation", indices,
                            "new_next_obs_dict_observation")
        s2 == AdvancedIndex(s1, "_next_obs_desired_goal", indices,
                            "new_next_obs_dict_desired_goal")
    IN AdvancedIndex(s2, "_next_obs_achieved_goal", indices,
                     "new_next_obs_dict_achieved_goal")

\* indices[-num_future_goals:]
LastIndices(indices, nf) ==
    [m \in 1..nf |-> indices[Len(indices) - nf + m]]

\* the lists the future indices are drawn from
FutureLists(fut, indices, nf) ==
    [m \in 1..nf |-> fut[LastIndices(indices, nf)[m]]]

\* the loop over the lists ends at the first list that is None (len(None)
\* raises TypeError) or empty (randint(0, 0) raises ValueError)
DrawError(lists) ==
    LET bad == {m \in 1..Len(lists) : lists[m] = None \/ Len(lists[m]) = 0}
    IN IF bad = {} THEN "none"
       ELSE LET m == CHOOSE x \in bad : \A y \in bad : x <= y
            IN IF lists[m] = None THEN "TypeError" ELSE "ValueError"

\* the draws np.random.randint(0, num_options) can make, one per list
\* (position n of a list here is position n - 1 in the code)
RECURSIVE Draws(_)
Draws(lists) ==
    IF lists = <<>> THEN {<<>>}
    ELSE {<<h>> \o t : h \in 1..Len(Head(lists)), t \in Draws(Tail(lists))}

\* the block under `if num_env_goals > 0` (goal_keys holds desired_goal_key)
SetEnvGoals(st, nr, ne) ==
    IF ne > 0
    THEN LET env_goals == [n \in 1..ne |-> EnvGoal]
             s1 == SliceStore(st, "resampled_goals", nr, nr + ne, env_goals)
             s2 == SliceStore(s1, "new_obs_dict_desired_goal", nr, nr + ne, env_goals)
         IN SliceStore(s2, "new_next_obs_dict_desired_goal", nr, nr + ne, env_goals)
    ELSE st

\* name[-nf:] = src[future_obs_idxs]
StoreFuture(st, name, src, batch_size, future_obs_idxs, nf) ==
    LET a == AdvancedIndex(st, src, future_obs_idxs, "future_goals")
    IN SliceStore(a, name, batch_size - nf, batch_size, Deref(a, "future_goals"))

\* the stores of the block under `if num_future_goals > 0`
SetFutureGoals(st, batch_size, future_obs_idxs, nf) ==
    IF nf > 0
    THEN LET s1 == StoreFuture(st, "resampled_goals", "_next_obs_achieved_goal",
                               batch_size, future_obs_idxs, nf)
             s2 == StoreFuture(s1, "new_obs_dict_desired_goal",
                               "_next_obs_desired_goal", batch_size,
                               future_obs_idxs, nf)
         IN StoreFuture(s2, "new_next_obs_dict_desired_goal",
                        "_next_obs_desired_goal", batch_size, future_obs_idxs, nf)
    ELSE st

\* env.compute_rewards: the reward of reaching the achieved goal under the goal
Reward(achieved, desired) == <<"reward", achieved, desired>>

NoBatch == <<>>

\* the dictionary random_batch returns (future_obs_idxs: the local array, kept
\* with the batch)
ObsDictBatch(st, indices, future_obs_idxs) ==
    LET achieved == Deref(st, "new_next_obs_dict_achieved_goal")
        desired == Deref(st, "new_next_obs_dict_desired_goal")
    IN [observations |-> Deref(st, "new_obs_dict_observation"),
        actions |-> Deref(st, "new_actions"),
        rewards |-> [n \in 1..Len(indices) |-> Reward(achieved[n], desired[n])],
        terminals |-> Deref(st, "terminals"),
        next_observations |-> Deref(st, "new_next_obs_dict_observation"),
        resampled_goals |-> desired,
        indices |-> indices,
        future_obs_idxs |-> future_obs_idxs]

\* ObsDictRelabelingBuffer.random_batch once the indices and the positions in
\* the future-index lists are drawn
ObsDict_random_batch(b, fr, fe, indices, draws) ==
    LET batch_size == Len(indices)
        st0 == AdvancedIndex(CallState(ObsDictHeap(b)), "_next_obs_desired_goal",
                             indices, "resampled_goals")
        ne == num_env_goals(batch_size, fe)
        nr == num_rollout_goals(batch_size, fr)
        nf == num_future_goals(batch_size, fr, fe)
        st1 == _batch_next_obs_dict(_batch_obs_dict(st0, indices), indices)
        st2 == SetEnvGoals(st1, nr, ne)
        lists == IF nf > 0 THEN FutureLists(b.fut, indices, nf) ELSE <<>>
        err == DrawError(lists)
    IN IF err # "none"
       THEN [b |-> ObsDictBuffer(st2.h, b), exc |-> err, batch |-> NoBatch]
       ELSE
         LET future_obs_idxs == [m \in 1..Len(lists) |-> lists[m][draws[m]]]
             st3 == SetFutureGoals(st2, batch_size, future_obs_idxs, nf)
             st4 == Rebind(Rebind(st3, "new_obs_dict_desired_goal", "resampled_goals"),
                           "new_next_obs_dict_desired_goal", "resampled_goals")
             st5 == AdvancedIndex(st4, "_actions", indices, "new_actions")
             st6 == AdvancedIndex(st5, "_terminals", indices, "terminals")
         IN [b |-> ObsDictBuffer(st6.h, b),
             exc |-> "none",
             batch |-> ObsDictBatch(st6, indices, future_obs_idxs)]

\* random_batch of imgObsDictRelabelingBuffer and newstateObsDictRelabelingBuffer
plain_random_batch(b, indices) ==
    LET st0 == CallState(PlainHeap(b))
        st1 == AdvancedIndex(st0, "_obs", indices, "observations")
        st2 == AdvancedIndex(st1, "_actions", indices, "new_actions")
        st3 == AdvancedIndex(st2, "_rewards", indices, "rewards")
        st4 == AdvancedIndex(st3, "_terminals", indices, "terminals")
        st5 == AdvancedIndex(st4, "_next_obs", indices, "next_observations")
    IN [b |-> PlainBuffer(st5.h, b),
        exc |-> "none",
        batch |-> [observations |-> Deref(st5, "observations"),
                   actions |-> Deref(st5, "new_actions"),
                   rewards |-> Deref(st5, "rewards"),
                   terminals |-> Deref(st5, "terminals"),
                   next_observations |-> Deref(st5, "next_observations")]]

\* a random_batch call with a batch_size of at most `sizes`
RandomBatchObsDictDraw(sizes) ==
    /\ IsReady("ObsDictRelabelingBuffer")
    /\ last_op' = "random_batch"
    /\ \E batch_size \in 1..sizes :
         /\ IF _size <= 0
            THEN /\ exc' = "ValueError"   \* randint: low >= high
                 /\ ret' = NoBatch
                 /\ UNCHANGED bufvars
            ELSE \E indices \in _sample_indices(_size, batch_size) :
                   LET nf == num_future_goals(batch_size, fraction_goals_rollout_goals,
                                              fraction_goals_env_goals)
                       lists == IF nf > 0
                                THEN FutureLists(_idx_to_future_obs_idx, indices, nf)
                                ELSE <<>>
                   IN \E draws \in (IF DrawError(lists) = "none"
                                    THEN Draws(lists) ELSE {<<>>}) :
                        \E r \in {ObsDict_random_batch(Buf,
                                      fraction_goals_rollout_goals,
                                      fraction_goals_env_goals, indices, draws)} :
                          /\ SetBuf(r.b)
                          /\ exc' = r.exc
                          /\ ret' = r.batch
    /\ store_failed' = "none"
    /\ UNCHANGED <<cfgvars, inserted, okLens, anyFailed>>

RandomBatchObsDictUpTo(sizes) ==
    /\ RandomBatchObsDictDraw(sizes)
    /\ UNCHANGED ncalls

RandomBatchObsDict == RandomBatchObsDictUpTo(MaxBatch)

RandomBatchPlain ==
    /\ phase = "ready"
    /\ cls # "ObsDictRelabelingBuffer"
    /\ last_op' = "random_batch"
    /\ \E batch_size \in 1..MaxBatch :
         /\ IF _size <= 0
            THEN /\ exc' = "ValueError"   \* randint: low >= high
                 /\ ret' = NoBatch
                 /\ UNCHANGED bufvars
            ELSE \E indices \in _sample_indices(_size, batch_size) :
                   \E r \in {plain_random_batch(Buf, indices)} :
                     /\ SetBuf(r.b)
                     /\ exc' = r.exc
                     /\ ret' = r.batch
    /\ store_failed' = "none"
    /\ UNCHANGED <<cfgvars, ncalls, inserted, okLens, anyFailed>>

\* the buffers sampled from: every pair of fractions __init__ accepts
InitBatch ==
    /\ cls \in Classes
    /\ phase = "ready"
    /\ max_size \in 1..MaxBatchBuffer
    /\ fraction_goals_rollout_goals \in 0..FracDen
    /\ fraction_goals_env_goals \in
         (IF cls = "ObsDictRelabelingBuffer" THEN 0..FracDen ELSE {0})
    /\ cls # "ObsDictRelabelingBuffer" => fraction_goals_rollout_goals = FracDen
    /\ FractionAsserts(fraction_goals_rollout_goals, fraction_goals_env_goals)
    /\ k \in (IF cls = "ObsDictRelabelingBuffer" THEN {0} ELSE 1..MaxK)
    /\ t_fn \in TFnArgs(cls)
    /\ _top = InitFields(cls, max_size).top
    /\ _size = InitFields(cls, max_size).size
    /\ _actions = InitFields(cls, max_size).actions
    /\ _rewards = InitFields(cls, max_size).rewards
    /\ _terminals = InitFields(cls, max_size).terminals
    /\ _obs = InitFields(cls, max_size).obs
    /\ _next_obs = InitFields(cls, max_size).next_obs
    /\ _idx_to_future_obs_idx = InitFields(cls, max_size).fut
    /\ last_op = "__init__"
    /\ exc = "none"
    /\ ret = <<>>
    /\ ncalls = 0
    /\ inserted = 0
    /\ okLens = TRUE
    /\ anyFailed = FALSE
    /\ store_failed = "none"
    /\ arg = <<>>
    /\ ev = EvIdle
    /\ dm = DmIdle

BatchAddPath == AddPathObsDictWithin(MaxBatchCalls, MaxBatchPathLen)
BatchAddSample == AddSampleWithin(MaxBatchCalls)
BatchAddPathRelabel ==
    AddPathRelabelWithin(MaxBatchCalls, MaxRelabelPathLen, MaxRelabelSteps)

NextBatch ==
    \/ BatchAddPath
    \/ BatchAddSample
    \/ BatchAddPathRelabel
    \/ RandomBatchObsDict
    \/ RandomBatchPlain

SpecBatch == InitBatch /\ [][NextBatch]_vars

\* ObsDictRelabelingBuffer alone, with larger batches and a bound on the
\* calls made of either method
InitCounts ==
    /\ cls = "ObsDictRelabelingBuffer"
    /\ phase = "ready"
    /\ max_size \in 1..MaxCountBuffer
    /\ fraction_goals_rollout_goals \in 0..FracDen
    /\ fraction_goals_env_goals \in 0..FracDen
    /\ FractionAsserts(fraction_goals_rollout_goals, fraction_goals_env_goals)
    /\ k = 0
    /\ t_fn \in TFnArgs(cls)
    /\ _top = InitFields(cls, max_size).top
    /\ _size = InitFields(cls, max_size).size
    /\ _actions = InitFields(cls, max_size).actions
    /\ _rewards = InitFields(cls, max_size).rewards
    /\ _terminals = InitFields(cls, max_size).terminals
    /\ _obs = InitFields(cls, max_size).obs
    /\ _next_obs = InitFields(cls, max_size).next_obs
    /\ _idx_to_future_obs_idx = InitFields(cls, max_size).fut
    /\ last_op = "__init__"
    /\ exc = "none"
    /\ ret = <<>>
    /\ ncalls = 0
    /\ inserted = 0
    /\ okLens = TRUE
    /\ anyFailed = FALSE
    /\ store_failed = "none"
    /\ arg = <<>>
    /\ ev = EvIdle
    /\ dm = DmIdle

CountsAddPath == AddPathObsDictWithin(MaxCountCalls, MaxCountPathLen)

\* random_batch counted among the calls made
CountsRandomBatch ==
    /\ ncalls < MaxCountCalls
    /\ RandomBatchObsDictDraw(MaxCountDraw)
    /\ ncalls' = ncalls + 1

NextCounts ==
    \/ CountsAddPath
    \/ CountsRandomBatch

SpecCounts == InitCounts /\ [][NextCounts]_vars

\* ObsDictRelabelingBuffer alone, with paths as long as those of Spec
InitFuture == InitBatch /\ cls = "ObsDictRelabelingBuffer"

FutureAddPath == AddPathObsDictWithin(MaxFutureCalls, MaxPathLen)

NextFuture ==
    \/ FutureAddPath
    \/ RandomBatchObsDict

SpecFuture == InitFuture /\ [][NextFuture]_vars

\* ------------------------------------------- ISE_7202/eval.py
training_steps == 150
episode_length == 50

\* no buffer object exists while a script runs
NoBuffer ==
    /\ cls = "none"
    /\ phase = "new"
    /\ max_size = 0
    /\ fraction_goals_rollout_goals = 0
    /\ fraction_goals_env_goals = 0
    /\ k = 0
    /\ t_fn = "None"
    /\ _top = UnsetFields.top
    /\ _size = UnsetFields.size
    /\ _actions = Unset
    /\ _rewards = Unset
    /\ _terminals = Unset
    /\ _obs = Unset
    /\ _next_obs = Unset
    /\ _idx_to_future_obs_idx = Unset
    /\ last_op = "none"
    /\ exc = "none"
    /\ ret = <<>>
    /\ ncalls = 0
    /\ inserted = 0
    /\ okLens = TRUE
    /\ anyFailed = FALSE
    /\ store_failed = "none"
    /\ arg = <<>>

bufferstate == <<cls, phase, max_size, fraction_goals_rollout_goals,
                 fraction_goals_env_goals, k, t_fn, bufvars, callvars, arg>>

\* main, before its first statement
InitEval ==
    /\ NoBuffer
    /\ ev = [EvIdle EXCEPT !.pc = "get_gym_environment"]
    /\ dm = DmIdle

\* faulty variant: the loop never resets the environment
MutLoopHead(i) == IF i < training_steps THEN "get_action" ELSE "close"

\* where run_evaluation goes at the head of its for loop
LoopHead(i) ==
    IF i < training_steps
    THEN IF i % episode_length = 0 THEN "reset" ELSE "get_action"
    ELSE "close"

\* faulty variant: the prompt is shown only at the start of an episode
MutAfterGetAction(i) == IF i % episode_length = 0 THEN "input" ELSE "step"

\* the statement after action = agent.get_action(...)
AfterGetAction(i) == "input"

\* what main does when a call raises: it has no try block, the exception
\* leaves main and the statements after the call are not run
OnRaise(e) == [e EXCEPT !.pc = "raised"]

\* evaluation_env = get_gym_environment(args)
EvGetEnv ==
    /\ ev.pc = "get_gym_environment"
    /\ ev' = [ev EXCEPT !.pc = "load_trained_policy", !.have_env = TRUE]
    /\ UNCHANGED <<bufferstate, dm>>

\* policy = load_trained_policy(args): torch.load of networks/<name>/trained_policy.pt
EvLoadPolicy ==
    /\ ev.pc = "load_trained_policy"
    /\ ev' = [ev EXCEPT !.pc = "wrap_environment"]
    /\ UNCHANGED <<bufferstate, dm>>

\* env = wrap_environment(env, args); the for loop starts with i = 0
EvWrap ==
    /\ ev.pc = "wrap_environment"
    /\ ev' = [ev EXCEPT !.pc = LoopHead(0), !.i = 0]
    /\ UNCHANGED <<bufferstate, dm>>

\* obs = env.reset()
EvReset ==
    /\ ev.pc = "reset"
    /\ ev' = [ev EXCEPT !.pc = "get_action",
                        !.obs = ev.nresets + ev.nsteps + 1,
                        !.nresets = ev.nresets + 1]
    /\ UNCHANGED <<bufferstate, dm>>

\* action = agent.get_action(obs['observation'])[0]; the action is named by
\* the observation it was computed from (obs = 0: the local is not bound yet)
EvGetAction ==
    /\ ev.pc = "get_action"
    /\ IF ev.obs = 0
       THEN ev' = OnRaise(ev)
       ELSE ev' = [ev EXCEPT !.pc = AfterGetAction(ev.i), !.action = ev.obs]
    /\ UNCHANGED <<bufferstate, dm>>

\* input("press enter to take action...")
EvInput ==
    /\ ev.pc = "input"
    /\ ev' = [ev EXCEPT !.pc = "step", !.confirms = ev.confirms + 1]
    /\ UNCHANGED <<bufferstate, dm>>

\* obs, reward, terminate, _ = env.step(action)
EvStep ==
    /\ ev.pc = "step"
    /\ \E terminate \in {0, 1} :
         ev' = [ev EXCEPT !.pc = "render",
                          !.obs = ev.nresets + ev.nsteps + 1,
                          !.terminate = terminate,
                          !.nsteps = ev.nsteps + 1,
                          !.confirms = 0]
    /\ UNCHANGED <<bufferstate, dm>>

\* env.render(), then the next iteration
EvRender ==
    /\ ev.pc = "render"
    /\ ev' = [ev EXCEPT !.pc = LoopHead(ev.i + 1), !.i = ev.i + 1,
                        !.nrenders = ev.nrenders + 1]
    /\ UNCHANGED <<bufferstate, dm>>

\* evaluation_env.close(), the last statement of main
EvClose ==
    /\ ev.pc = "close"
    /\ ev' = [ev EXCEPT !.pc = "done", !.closed = TRUE]
    /\ UNCHANGED <<bufferstate, dm>>

\* the calls into torch, the simulator and the terminal can raise
\* (a missing checkpoint file, a simulator error, EOF on stdin)
RaisingCalls == {"get_gym_environment", "load_trained_policy", "wrap_environment",
                 "reset", "get_action", "input", "step", "render", "close"}

EvRaise ==
    /\ ev.pc \in RaisingCalls
    /\ ev' = OnRaise(ev)
    /\ UNCHANGED <<bufferstate, dm>>

NextEval ==
    \/ EvGetEnv
    \/ EvLoadPolicy
    \/ EvWrap
    \/ EvReset
    \/ EvGetAction
    \/ EvInput
    \/ EvStep
    \/ EvRender
    \/ EvClose
    \/ EvRaise

SpecEval == InitEval /\ [][NextEval]_vars

\* ------------------------------------------- demo_rlbench.py
step_limit == 100

\* main after task.reset(): terminate = 0, step_num = 0
InitDemo ==
    /\ NoBuffer
    /\ ev = EvIdle
    /\ dm = [DmIdle EXCEPT !.pc = "while"]

\* faulty variant: the terminate flag is not looked at
MutLoopCondition(step_num, terminate) == step_num < step_limit

\* the while condition
LoopCondition(step_num, terminate) == step_num < step_limit /\ terminate = 0

\* one iteration: task.step(random action), step_num += 1; when task.step
\* raises (a simulator error) the exception leaves main
DemoStep ==
    /\ dm.pc = "while"
    /\ LoopCondition(dm.step_num, dm.terminate)
    /\ \/ \E terminate \in {0, 1} :
            dm' = [dm EXCEPT !.terminate = terminate,
                             !.step_num = dm.step_num + 1,
                             !.task_steps = dm.task_steps + 1,
                             !.seen_terminate = (dm.seen_terminate \/ terminate # 0)]
       \/ dm' = [dm EXCEPT !.pc = "raised"]
    /\ UNCHANGED <<bufferstate, ev>>

\* the condition is false: main returns
DemoExit ==
    /\ dm.pc = "while"
    /\ ~LoopCondition(dm.step_num, dm.terminate)
    /\ dm' = [dm EXCEPT !.pc = "done"]
    /\ UNCHANGED <<bufferstate, ev>>

NextDemo ==
    \/ DemoStep
    \/ DemoExit

SpecDemo == InitDemo /\ [][NextDemo]_vars

\* the interpreter keeps running the loop until main returns or is left
SpecDemoFair == SpecDemo /\ WF_vars(NextDemo)

\* =========================================== the claims
IsObsDict == cls = "ObsDictRelabelingBuffer"
Slots == 0..(_size - 1)

\* slot i was written by an insertion: no array holds its initial zero there
Written(i) ==
    /\ _actions[i] # Zero
    /\ _obs[i] # Zero
    /\ _next_obs[i] # Zero
    /\ (~IsObsDict => _rewards[i] # Zero)

\* slot i holds one transition: the arrays hold step s of the same call p,
\* the observation, next observation and reward under the same goal
Coherent(i) ==
    /\ _actions[i] = Tok(_obs[i][1], _obs[i][2], 0)
    /\ _next_obs[i] = _obs[i]
    /\ (~IsObsDict => _rewards[i] = _obs[i])

\* C1: every slot in [0, _size) holds a transition written by an earlier
\* insertion (as long as no store has failed, one whole transition), never an
\* untouched initial slot, and _sample_indices returns only indices in [0, _size)
C1_SlotsValid ==
    phase = "ready" =>
        /\ \A i \in Slots : Written(i) /\ (~anyFailed => Coherent(i))
        /\ (last_op = "_sample_indices" =>
              \A n \in DOMAIN ret : ret[n] \in Slots)

C1_Witness ==
    /\ phase = "ready"
    /\ max_size >= 2
    /\ inserted > max_size
    /\ _size = max_size
    /\ last_op = "_sample_indices"
    /\ ret # <<>>

\* C2: in ObsDictRelabelingBuffer, after add_path calls with paths of length
\* 1..max_size, every slot i in [0, _size) has a future-index list that is set,
\* is not empty, and names only slots in [0, _size) that hold a transition of
\* the path of slot i at the same or a later step
C2_FutureIdxValid ==
    (phase = "ready" /\ IsObsDict /\ okLens) =>
        \A i \in Slots :
            LET lst == _idx_to_future_obs_idx[i]
            IN /\ lst # None
               /\ Len(lst) > 0
               /\ \A n \in 1..Len(lst) :
                    /\ lst[n] \in Slots
                    /\ _next_obs[lst[n]][1] = _obs[i][1]
                    /\ _next_obs[lst[n]][2] >= _obs[i][2]

\* a wrapped path lies partly over an older path part of which is still stored
C2_Witness ==
    /\ phase = "ready" /\ IsObsDict /\ okLens
    /\ _size = max_size
    /\ \E i \in Slots, j \in Slots :
         /\ j < i
         /\ _obs[i][1] = ncalls /\ _obs[j][1] = ncalls
         /\ _obs[i][2] < _obs[j][2]
    /\ \E i \in Slots : _obs[i][1] < ncalls /\ _obs[i][2] > 0

\* C3: the write pointer and the fill count stay in range, and until the
\* buffer is full the write pointer equals the fill count
C3_PointersInRange ==
    phase = "ready" =>
        /\ 0 <= _top /\ _top < max_size
        /\ 0 <= _size /\ _size <= max_size
        /\ (_size < max_size => _top = _size)

C3_Witness ==
    /\ phase = "ready"
    /\ cls = "imgObsDictRelabelingBuffer"
    /\ inserted > max_size
    /\ _size = max_size
    /\ _top > 0

\* C4: when the store of the observation or of the next observation fails in
\* imgObsDictRelabelingBuffer.add_sample, the exception reaches the caller and
\* _top and _size (and the count of sampleable transitions) stay as they were
C4_FailedSampleNotCounted ==
    [][(/\ cls = "imgObsDictRelabelingBuffer"
        /\ ncalls' = ncalls + 1
        /\ last_op' = "add_sample"
        /\ store_failed' # "none")
       => (/\ exc' = "ValueError"
           /\ _top' = _top
           /\ _size' = _size
           /\ inserted' = inserted)]_vars

C4_Witness ==
    /\ cls = "imgObsDictRelabelingBuffer"
    /\ last_op = "add_sample"
    /\ store_failed = "next_obs"
    /\ exc = "ValueError"
    /\ _size = max_size
    /\ _obs[_top][1] = ncalls

\* C5: __init__ succeeds exactly when both fractions are >= 0 and their sum is
\* <= 1; otherwise it raises AssertionError with no storage, _top or _size set
C5_CtorFractions ==
    phase # "new" =>
        /\ (phase = "ready") <=>
              (/\ fraction_goals_rollout_goals >= 0
               /\ fraction_goals_env_goals >= 0
               /\ fraction_goals_rollout_goals + fraction_goals_env_goals <= FracDen)
        /\ (phase = "ready" =>
              /\ exc = "none" /\ _top = 0 /\ _size = 0
              /\ DOMAIN _actions = 0..(max_size - 1))
        /\ (phase = "failed" =>
              /\ exc = "AssertionError"
              /\ _top = UnsetFields.top /\ _size = UnsetFields.size
              /\ _actions = Unset /\ _terminals = Unset
              /\ _obs = Unset /\ _next_obs = Unset)

C5_Witness ==
    /\ phase = "failed"
    /\ fraction_goals_rollout_goals > 0
    /\ fraction_goals_env_goals > 0
    /\ fraction_goals_rollout_goals + fraction_goals_env_goals > FracDen

\* C6: on ObsDictRelabelingBuffer a call of add_sample raises
\* NotImplementedError and changes nothing, and terminate_episode changes nothing
C6_OnlyAddPath ==
    [][/\ (IsObsDict /\ last_op' = "add_sample")
            => (exc' = "NotImplementedError" /\ bufvars' = bufvars)
       /\ (IsObsDict /\ last_op' = "terminate_episode")
            => (exc' = "none" /\ bufvars' = bufvars)]_vars

C6_Witness ==
    /\ IsObsDict
    /\ last_op = "add_sample"
    /\ exc = "NotImplementedError"
    /\ _size > 0
    /\ _top > 0

\* C7: in run_evaluation every env.step is preceded by its own confirmation:
\* exactly one prompt was awaited since the previous env.step (or since the
\* start), and the action passed is the one computed from the most recent
\* observation
C7_StepAfterConfirmation ==
    [][ev'.nsteps = ev.nsteps + 1
       => (/\ ev.confirms = 1
           /\ ev.action # 0
           /\ ev.action = ev.obs)]_vars

\* about to take the first step of the second episode, after its confirmation
C7_Witness ==
    /\ ev.pc = "step"
    /\ ev.i = episode_length
    /\ ev.nsteps = episode_length
    /\ ev.confirms = 1
    /\ ev.action = ev.obs

\* C8: in every execution of main in which get_gym_environment returned an
\* environment, close() has been called on it when main ends, whatever
\* happened while loading the policy or stepping the simulator (a run that
\* the close() call itself ended, after the last render, has called it)
C8_AlwaysClosed ==
    (ev.have_env /\ ev.pc \in {"done", "raised"}) =>
        (ev.closed \/ ev.nrenders = training_steps)

\* C9: the demo's loop terminates; it makes at most 100 task.step calls,
\* exactly 100 unless some step reported a nonzero terminate flag, and no
\* task.step after a step reported a nonzero terminate flag (a task.step
\* that raises ends the loop and main at once: the count of 100 is that of
\* the runs that return)
C9_DemoLoop ==
    /\ [](/\ dm.task_steps <= step_limit
          /\ (dm.pc = "done" => (dm.task_steps = step_limit \/ dm.seen_terminate)))
    /\ [][dm.seen_terminate => dm'.task_steps = dm.task_steps]_vars
    /\ <>(dm.pc \in {"done", "raised"})

C9_Witness ==
    /\ dm.pc = "done"
    /\ dm.seen_terminate
    /\ dm.task_steps > 1
    /\ dm.task_steps < step_limit

\* C10: num_steps_can_sample() is min(N, max_size) for N the number of
\* transitions inserted since construction, it never decreases, and _top is
\* N mod max_size
C10_CountInserted ==
    /\ [](phase = "ready" =>
            /\ num_steps_can_sample = Min(inserted, max_size)
            /\ _top = inserted % max_size)
    /\ [][num_steps_can_sample' >= num_steps_can_sample]_vars

C10_Witness ==
    /\ phase = "ready"
    /\ cls = "newstateObsDictRelabelingBuffer"
    /\ last_op = "add_path"
    /\ max_size >= 2
    /\ inserted > max_size
    /\ inserted % max_size # 0
    /\ num_steps_can_sample = max_size

\* the reference of C11: the steps s, s + 1, ... of path p stored one at a
\* time, step s in slot (top + s) mod max_size of a standard circular buffer
RECURSIVE OneAtATime(_, _, _, _, _)
OneAtATime(b, ms, p, L, s) ==
    IF s >= L THEN b
    ELSE OneAtATime(
           [b EXCEPT !.actions[b.top] = Tok(p, s, 0),
                     !.terminals[b.top] = IF s = L - 1 THEN 1 ELSE 0,
                     !.obs[b.top] = Tok(p, s, 0),
                     !.next_obs[b.top] = Tok(p, s, 0),
                     !.top = (b.top + 1) % ms,
                     !.size = IF b.size < ms THEN b.size + 1 ELSE b.size],
           ms, p, L, s + 1)

\* C11: for every starting _top and every path of length 1..max_size,
\* ObsDictRelabelingBuffer.add_path leaves the actions, terminals,
\* observations, next observations, _top and _size that storing the steps one
\* at a time leaves (wrapping or not, and when _top + L = max_size)
C11_AddPathIsCircular ==
    [][(/\ IsObsDict
        /\ ncalls' = ncalls + 1
        /\ last_op' = "add_path"
        /\ inserted' - inserted >= 1
        /\ inserted' - inserted <= max_size)
       => LET r == OneAtATime(Buf, max_size, ncalls + 1, inserted' - inserted, 0)
          IN /\ _actions' = r.actions
             /\ _terminals' = r.terminals
             /\ _obs' = r.obs
             /\ _next_obs' = r.next_obs
             /\ _top' = r.top
             /\ _size' = r.size]_vars

\* a path stored by the wrapping branch, part of it before and part after the wrap
C11_Witness ==
    /\ IsObsDict /\ phase = "ready" /\ okLens
    /\ last_op = "add_path"
    /\ ncalls >= 2
    /\ _top > 0
    /\ _top < max_size - 1
    /\ _obs[_top - 1] = Tok(ncalls, _top, 0)
    /\ _obs[max_size - 1][1] = ncalls

\* ------------------------------------------- random_batch: goal sources
\* the batch positions (counted from 0) of the three goal sources
RolloutPositions(batch_size, fr, fe) == 0..(num_rollout_goals(batch_size, fr) - 1)
EnvPositions(batch_size, fr, fe) ==
    num_rollout_goals(batch_size, fr)
      ..(num_rollout_goals(batch_size, fr) + num_env_goals(batch_size, fe) - 1)
FuturePositions(batch_size, fr, fe) ==
    (batch_size - num_future_goals(batch_size, fr, fe))..(batch_size - 1)

IsBatch == last_op = "random_batch" /\ exc = "none"

\* C12: for every batch_size >= 1 and every accepted pair of fractions the
\* three goal counts of ObsDictRelabelingBuffer.random_batch are >= 0, the
\* positions [0, num_rollout_goals), [num_rollout_goals, num_rollout_goals +
\* num_env_goals) and the last num_future_goals positions are pairwise disjoint
\* and cover the batch, every returned goal comes from the one source of its
\* position, and with the default fractions no entry is relabelled.
C12_GoalCounts ==
    (IsObsDict /\ phase = "ready") =>
      LET fr == fraction_goals_rollout_goals
          fe == fraction_goals_env_goals
      IN /\ \A batch_size \in 1..MaxCountBatch :
              LET R == RolloutPositions(batch_size, fr, fe)
                  E == EnvPositions(batch_size, fr, fe)
                  F == FuturePositions(batch_size, fr, fe)
              IN /\ num_rollout_goals(batch_size, fr) >= 0
                 /\ num_env_goals(batch_size, fe) >= 0
                 /\ num_future_goals(batch_size, fr, fe) >= 0
                 /\ Cardinality(R) = num_rollout_goals(batch_size, fr)
                 /\ Cardinality(E) = num_env_goals(batch_size, fe)
                 /\ Cardinality(F) = num_future_goals(batch_size, fr, fe)
                 /\ R \cap E = {} /\ R \cap F = {} /\ E \cap F = {}
                 /\ R \cup E \cup F = 0..(batch_size - 1)
                 /\ (fr = FracDen /\ fe = 0) => R = 0..(batch_size - 1)
         /\ IsBatch =>
              LET batch_size == Len(ret.indices)
              IN /\ Len(ret.resampled_goals) = batch_size
                 /\ \A n \in 1..batch_size :
                      LET g == ret.resampled_goals[n]
                      IN /\ (n - 1) \in RolloutPositions(batch_size, fr, fe)
                              <=> g = Goal("desired_goal", _next_obs[ret.indices[n]])
                         /\ (n - 1) \in EnvPositions(batch_size, fr, fe)
                              <=> g = EnvGoal
                         /\ (n - 1) \in FuturePositions(batch_size, fr, fe)
                              <=> g[1] = "achieved_goal"

\* a batch of at least three entries in which each of the three sources gave
\* a goal: a rollout goal first, an env goal after it, a future goal last
C12_Witness ==
    /\ IsObsDict /\ IsBatch
    /\ Len(ret.indices) >= 3
    /\ ret.resampled_goals[1] = Goal("desired_goal", _next_obs[ret.indices[1]])
    /\ \E n \in 2..(Len(ret.indices) - 1) : ret.resampled_goals[n] = EnvGoal
    /\ ret.resampled_goals[Len(ret.indices)][1] = "achieved_goal"

\* the elements of a list
Range(list) == {list[n] : n \in 1..Len(list)}

\* C13: in ObsDictRelabelingBuffer.random_batch on a buffer with _size >= 1 the
\* future-index lists are used only for the last num_future_goals entries; for
\* each such entry with sampled slot i the future index is drawn from the list
\* of slot i, which contains i, so the draw never fails, and the relabelled goal
\* is the achieved goal of the next observation of a transition of the same
\* path at the same or a later step.
C13_FutureGoalSamePath ==
    (IsObsDict /\ last_op = "random_batch" /\ _size >= 1) =>
      /\ exc = "none"
      /\ LET batch_size == Len(ret.indices)
             nf == num_future_goals(batch_size, fraction_goals_rollout_goals,
                                    fraction_goals_env_goals)
         IN /\ Len(ret.future_obs_idxs) = nf
            /\ \A n \in 1..(batch_size - nf) :
                 ret.resampled_goals[n][1] # "achieved_goal"
            /\ \A m \in 1..nf :
                 LET i == ret.indices[batch_size - nf + m]
                     j == ret.future_obs_idxs[m]
                 IN /\ _idx_to_future_obs_idx[i] # None
                    /\ i \in Range(_idx_to_future_obs_idx[i])
                    /\ j \in Range(_idx_to_future_obs_idx[i])
                    /\ ret.resampled_goals[batch_size - nf + m]
                         = Goal("achieved_goal", _next_obs[j])
                    /\ _next_obs[j][1] = _next_obs[i][1]
                    /\ _next_obs[j][2] >= _next_obs[i][2]

\* C14: random_batch of each of the three buffers leaves _top, _size, the
\* stored actions, rewards, terminals, observations, next observations and the
\* future-index lists as they were before the call.
C14_RandomBatchReadOnly ==
    [][last_op' = "random_batch" => bufvars' = bufvars]_vars

\* a batch whose goal was relabelled with the achieved goal of another slot
C14_Witness ==
    /\ IsObsDict /\ IsBatch /\ ncalls >= 1
    /\ Len(ret.future_obs_idxs) >= 1
    /\ ret.future_obs_idxs[1] # ret.indices[Len(ret.indices)]
    /\ ret.resampled_goals[Len(ret.indices)]
         # Goal("desired_goal", _next_obs[ret.indices[Len(ret.indices)]])

\* ------------------------------------------- add_path of the newstate buffer
\* the slot the o-th add_sample call of an add_path writes, and the step and
\* the copy (0: the original) of the path that call should be storing
SlotOf(o) == (_top + o) % max_size
StepOf(o) == o \div (k + 1)
CopyOf(o) == o % (k + 1)

\* C15: newstateObsDictRelabelingBuffer.add_path with a path of length L >= 1
\* makes exactly L + k*(L-1) insertions: for each step i in path order the
\* original of step i, then (but for the last step) k relabelled copies of
\* step i, each with the action and the terminal flag of step i and the goal of
\* a step g with i < g < L. (The path is one whose observations all have the
\* size the arrays were built for, so that no add_sample raises.  Of a call
\* that makes more insertions than the buffer has slots the last max_size
\* insertions are compared.)
C15_NewstateAddPathOrder ==
    [][(/\ cls = "newstateObsDictRelabelingBuffer"
        /\ last_op' = "add_path"
        /\ ncalls' = ncalls + 1
        /\ arg' # <<>>
        /\ arg'[1] >= 1
        /\ arg'[3] = WellFormed)
       => LET L == arg'[1]
              sel == arg'[2]
              p == ncalls + 1
              n == L + k * (L - 1)
          IN /\ exc' = "none"
             /\ inserted' - inserted = n
             /\ _top' = (_top + n) % max_size
             /\ \A o \in 0..(n - 1) :
                  o >= n - max_size =>
                    LET i == StepOf(o)
                        c == CopyOf(o)
                        q == SlotOf(o)
                    IN /\ i <= L - 1
                       /\ (i = L - 1 => c = 0)
                       /\ _actions'[q] = Tok(p, i, 0)
                       /\ _terminals'[q] = PathTerminals(L)[i]
                       /\ (c = 0 => /\ _obs'[q] = Tok(p, i, 0)
                                    /\ _next_obs'[q] = Tok(p, i, 0))
                       /\ (c > 0 => \E g \in (i + 1)..(L - 1) :
                                      /\ g = sel[i * k + c]
                                      /\ _obs'[q] = Tok(p, i, g + 1)
                                      /\ _next_obs'[q] = Tok(p, i, g + 1))]_vars

\* a path of three steps or more, all of its insertions still stored, whose
\* first step was relabelled with a goal two steps later
C15_Witness ==
    /\ cls = "newstateObsDictRelabelingBuffer"
    /\ last_op = "add_path" /\ exc = "none" /\ arg # <<>>
    /\ arg[1] >= 3
    /\ arg[2][1] = 2
    /\ _size = arg[1] + k * (arg[1] - 1)
    /\ _obs[1] = Tok(ncalls, 0, 3)
    /\ _obs[k + 1] = Tok(ncalls, 1, 0)

\* ------------------------------------------- run_evaluation
InLoop == ev.pc \in {"reset", "get_action", "input", "step", "render"}

\* C16: run_evaluation makes exactly 150 env.step calls, each followed by one
\* env.render, and exactly three env.reset calls, at iterations 0, 50 and 100
\* and before the action of that iteration is computed, so that get_action
\* always has an observation; the terminate flag of env.step changes nothing
\* of this. (A run that an exception ends makes fewer calls, on this schedule.)
C16_EvaluationSchedule ==
    /\ InLoop =>
         /\ ev.i >= 0 /\ ev.i < 150
         /\ ev.nsteps = (IF ev.pc = "render" THEN ev.i + 1 ELSE ev.i)
         /\ ev.nrenders = ev.i
         /\ ev.nresets = (IF ev.pc = "reset" THEN ev.i \div 50 ELSE ev.i \div 50 + 1)
         /\ (ev.pc = "reset" => ev.i \in {0, 50, 100})
         /\ (ev.pc = "get_action" => ev.obs # 0)
    /\ ev.pc \in {"close", "done"} =>
         /\ ev.nsteps = 150
         /\ ev.nrenders = 150
         /\ ev.nresets = 3

\* a run that returned although its last step, and so the step before a
\* non-resetting iteration, reported terminate
C16_Witness ==
    /\ ev.pc = "done"
    /\ ev.nsteps = 150 /\ ev.nrenders = 150 /\ ev.nresets = 3
    /\ ev.terminate = 1

\* ------------------------------------------- failed add_sample calls
\* C17: in imgObsDictRelabelingBuffer, after any sequence of add_sample calls
\* some of which fail while storing the observation, every slot in [0, _size)
\* holds the action, reward, observation and next observation of one single
\* successful add_sample call, also when the buffer is full.
C17_NoPartialTransition ==
    (cls = "imgObsDictRelabelingBuffer" /\ phase = "ready") =>
        \A i \in Slots : Coherent(i)
====
